---- MODULE Spec2Model ----
(***************************************************************************)
(* MultiSigService (services/multisig) and the script that drives it,      *)
(* against a ledger running the external multisig program.                 *)
(*                                                                         *)
(* A service call is an async function: it runs up to its first await,     *)
(* is suspended while the RPC request is in flight, and is resumed by the  *)
(* response.  Each await is one step of the model, so calls of several     *)
(* instances (or several calls of one instance) interleave at the awaits.  *)
(***************************************************************************)
EXTENDS Integers, Sequences, FiniteSets, TLC

(* ------------------------------ bounds --------------------------------- *)

\* Vault transactions the ledger accepts per multisig account.
MaxTransactionIndex == 2
\* Keypairs Keypair.generate() can still hand out.
NumGenKeys == 2

(* ------------------------- program constants --------------------------- *)

\* threshold: 1 in multisigCreateV2
Threshold == 1
\* timeLock: 0 in multisigCreateV2
TimeLock == 0
\* index: 0 in getVaultPda, vaultIndex: 0 in the instruction builders
VaultIndex == 0
\* transactionIndex: BigInt(1) in executeTx
ExecuteTransactionIndex == 1
\* ephemeralSigners: 0 in vaultTransactionCreate
EphemeralSigners == 0
\* amount: BigInt(1_000_000) in multisigAddSpendingLimit
SpendingLimitAmount == 1000000

(* ------------------------------ values --------------------------------- *)

\* The MultiSigService instances, and the calls that can be in flight (or
\* returned and not yet released) at the same time.
Services == {1, 2}
Calls == {1, 2}

Null == "null"
NoIndex == -1

\* Keypairs handed to the constructor, and keypairs Keypair.generate() makes.
\* A keypair is identified with its public key.
GivenKeys == {<<"given", 1>>}
GenKeys == {<<"generated", n>> : n \in 1 .. NumGenKeys}
NoKey == <<"none", 0>>

FeePayers == {"feePayerA", "feePayerB"}
Agents == {"agentA", "agentB"}
Treasuries == {"treasury1", "treasury2"}
FirstTreasury == "treasury1"
UsdcMint == "EPjFWdd5AufqSSqeM2qN1xzybapC8G4wEGGkZwyTDt1v"

\* The instruction lists a caller passes to sendTx.
InnerInstructions == {<<"SystemProgram.transfer">>}

(* ------------------------ address derivation --------------------------- *)

\* multisig.getMultisigPda({createKey}): seeds are the create key only.
getMultisigPda(createKey) == <<"multisig", createKey>>

\* multisig.getVaultPda({multisigPda, index})
getVaultPda(multisigPda, index) == <<"vault", multisigPda, index>>

\* multisig.getSpendingLimitPda({multisigPda, createKey})
getSpendingLimitPda(multisigPda, createKey) ==
    <<"spending_limit", multisigPda, createKey>>

\* multisig.getProgramConfigPda({})
getProgramConfigPda == <<"program_config">>

(* ------------------------------- state --------------------------------- *)

VARIABLES
    ledger,     \* the accounts of the external program
    svc,        \* svc[i]: the fields of MultiSigService instance i
    calls,      \* calls[c]: one call of a service method, in flight or returned
    usedKeys,   \* keypairs Keypair.generate() has handed out
    driver,     \* the driving script: its position and its local variables
    openai,     \* one requestOpenAI call: its loop, its attempts, its outcome
    provider,   \* a TokenProvider: its cache and one fetchHolderList call
    imageService,   \* ImageDescriptionService.instance and the calls of
                    \* getInstance
    telegram    \* one message in the Telegram client: handler position, replies

\* The multisig service with its caller, and the Telegram bot's parts.
multisigVars == <<ledger, svc, calls, usedKeys, driver>>
botVars == <<openai, provider, imageService, telegram>>

vars == <<ledger, svc, calls, usedKeys, driver,
          openai, provider, imageService, telegram>>

\* A part of the program that does not run in a specification.
Off == [pc |-> "off"]

BotOff ==
    /\ openai = Off
    /\ provider = Off
    /\ imageService = Off
    /\ telegram = Off

(* -------------------- the external multisig program -------------------- *)
(* The ledger holds the program config, the multisig accounts, the vault   *)
(* transactions, the proposals and the spending limits.  Accounts are kept *)
(* in sets so that two accounts for one address or index are states the    *)
(* model can express.                                                      *)

Member(key) == [key |-> key, permissions |-> "all"]

MemberKeys(members) == {members[n].key : n \in 1 .. Len(members)}

MultisigAt(L, pda) == {m \in L.multisigs : m.address = pda}

VaultTransactionsAt(L, pda, index) ==
    {t \in L.vaultTransactions : t.multisig = pda /\ t.index = index}

ProposalsAt(L, pda, index) ==
    {p \in L.proposals : p.multisig = pda /\ p.transactionIndex = index}

SpendingLimitsAt(L, address) == {s \in L.spendingLimits : s.address = address}

Rejected(L) == [ok |-> FALSE, L |-> L]
Accepted(L) == [ok |-> TRUE, L |-> L]

\* multisig_create_v2: the account must not exist, its address is the one
\* derived from the create key, the treasury is the program config's, the
\* members are distinct and the threshold is within 1 .. #members.
ProgramMultisigCreate(L, ix) ==
    IF /\ MultisigAt(L, ix.multisigPda) = {}
       /\ ix.multisigPda = getMultisigPda(ix.createKey)
       /\ ix.treasury = L.treasury
       /\ Cardinality(MemberKeys(ix.members)) = Len(ix.members)
       /\ ix.threshold >= 1
       /\ ix.threshold <= Len(ix.members)
    THEN Accepted([L EXCEPT !.multisigs = @ \cup
            {[address |-> ix.multisigPda,
              createKey |-> ix.createKey,
              configAuthority |-> ix.configAuthority,
              threshold |-> ix.threshold,
              timeLock |-> ix.timeLock,
              members |-> MemberKeys(ix.members),
              transactionIndex |-> 0]}])
    ELSE Rejected(L)

\* multisig_add_spending_limit: signed by the account's config authority,
\* for a spending-limit address that is not in use.
ProgramAddSpendingLimit(L, ix) ==
    IF /\ MultisigAt(L, ix.multisigPda) # {}
       /\ \A m \in MultisigAt(L, ix.multisigPda) :
              m.configAuthority = ix.configAuthority
       /\ ix.spendingLimit = getSpendingLimitPda(ix.multisigPda, ix.createKey)
       /\ SpendingLimitsAt(L, ix.spendingLimit) = {}
    THEN Accepted([L EXCEPT !.spendingLimits = @ \cup
            {[address |-> ix.spendingLimit,
              multisig |-> ix.multisigPda,
              createKey |-> ix.createKey,
              vaultIndex |-> ix.vaultIndex,
              mint |-> ix.mint,
              amount |-> ix.amount,
              period |-> ix.period,
              members |-> ix.members,
              destinations |-> ix.destinations]}])
    ELSE Rejected(L)

\* vault_transaction_create: the creator is a member and the index is the
\* account's transaction index + 1; the account's index is advanced.
ProgramVaultTransactionCreate(L, ix) ==
    IF /\ MultisigAt(L, ix.multisigPda) # {}
       /\ \A m \in MultisigAt(L, ix.multisigPda) :
              /\ ix.creator \in m.members
              /\ ix.transactionIndex = m.transactionIndex + 1
       /\ VaultTransactionsAt(L, ix.multisigPda, ix.transactionIndex) = {}
    THEN Accepted([L EXCEPT
            !.multisigs = {IF m.address = ix.multisigPda
                           THEN [m EXCEPT !.transactionIndex = @ + 1]
                           ELSE m : m \in @},
            !.vaultTransactions = @ \cup
                {[multisig |-> ix.multisigPda,
                  index |-> ix.transactionIndex,
                  creator |-> ix.creator,
                  vaultIndex |-> ix.vaultIndex,
                  message |-> ix.transactionMessage]}])
    ELSE Rejected(L)

\* proposal_create: the creator is a member, the index is one the account
\* has handed out, and no proposal exists for it.
ProgramProposalCreate(L, ix) ==
    IF /\ MultisigAt(L, ix.multisigPda) # {}
       /\ \A m \in MultisigAt(L, ix.multisigPda) :
              /\ ix.creator \in m.members
              /\ ix.transactionIndex >= 1
              /\ ix.transactionIndex <= m.transactionIndex
       /\ ProposalsAt(L, ix.multisigPda, ix.transactionIndex) = {}
    THEN Accepted([L EXCEPT !.proposals = @ \cup
            {[multisig |-> ix.multisigPda,
              transactionIndex |-> ix.transactionIndex,
              status |-> "Draft",
              approved |-> {}]}])
    ELSE Rejected(L)

\* proposal_approve: a member that has not approved yet approves a Draft
\* proposal; the proposal is Approved once the approvals reach the threshold.
ProgramProposalApprove(L, ix) ==
    IF /\ MultisigAt(L, ix.multisigPda) # {}
       /\ \A m \in MultisigAt(L, ix.multisigPda) : ix.member \in m.members
       /\ ProposalsAt(L, ix.multisigPda, ix.transactionIndex) # {}
       /\ \A p \in ProposalsAt(L, ix.multisigPda, ix.transactionIndex) :
              p.status = "Draft" /\ ix.member \notin p.approved
    THEN LET m == CHOOSE x \in MultisigAt(L, ix.multisigPda) : TRUE
         IN Accepted([L EXCEPT !.proposals =
                {IF p.multisig = ix.multisigPda
                    /\ p.transactionIndex = ix.transactionIndex
                 THEN [p EXCEPT
                         !.approved = @ \cup {ix.member},
                         !.status =
                            IF Cardinality(p.approved \cup {ix.member})
                                   >= m.threshold
                            THEN "Approved" ELSE "Draft"]
                 ELSE p : p \in @}])
    ELSE Rejected(L)

\* vault_transaction_execute: a member executes the vault transaction of an
\* Approved proposal.
ProgramVaultTransactionExecute(L, ix) ==
    IF /\ MultisigAt(L, ix.multisigPda) # {}
       /\ \A m \in MultisigAt(L, ix.multisigPda) : ix.member \in m.members
       /\ VaultTransactionsAt(L, ix.multisigPda, ix.transactionIndex) # {}
       /\ ProposalsAt(L, ix.multisigPda, ix.transactionIndex) # {}
       /\ \A p \in ProposalsAt(L, ix.multisigPda, ix.transactionIndex) :
              p.status = "Approved"
    THEN Accepted([L EXCEPT !.proposals =
            {IF p.multisig = ix.multisigPda
                /\ p.transactionIndex = ix.transactionIndex
             THEN [p EXCEPT !.status = "Executed"]
             ELSE p : p \in @}])
    ELSE Rejected(L)

ApplyInstruction(L, ix) ==
    CASE ix.kind = "multisigCreateV2" -> ProgramMultisigCreate(L, ix)
      [] ix.kind = "multisigAddSpendingLimit" -> ProgramAddSpendingLimit(L, ix)
      [] ix.kind = "vaultTransactionCreate" ->
            ProgramVaultTransactionCreate(L, ix)
      [] ix.kind = "proposalCreate" -> ProgramProposalCreate(L, ix)
      [] ix.kind = "proposalApprove" -> ProgramProposalApprove(L, ix)
      [] ix.kind = "vaultTransactionExecute" ->
            ProgramVaultTransactionExecute(L, ix)

\* A transaction is atomic: its instructions run in order, and if one is
\* rejected the ledger keeps none of their effects.
RECURSIVE RunInstructions(_, _)
RunInstructions(L, ixs) ==
    IF ixs = <<>> THEN Accepted(L)
    ELSE LET r == ApplyInstruction(L, Head(ixs))
         IN IF r.ok THEN RunInstructions(r.L, Tail(ixs)) ELSE Rejected(L)

ApplyTransaction(L, ixs) ==
    LET r == RunInstructions(L, ixs)
    IN IF r.ok THEN r ELSE Rejected(L)

EmptyLedger(treasury) ==
    [treasury |-> treasury,
     multisigs |-> {},
     vaultTransactions |-> {},
     proposals |-> {},
     spendingLimits |-> {}]

(* --------------------------- MultiSigService --------------------------- *)

\* A constructor that derives the multisig address from the fee payer too.
Constructor_perFeePayer(feePayer, agent, create_key, generated) ==
    LET createKey == IF create_key # NoKey THEN create_key ELSE generated
        pda == getMultisigPda(<<createKey, feePayer>>)
    IN [feePayer |-> feePayer,
        createKey |-> createKey,
        multisigPda |-> pda,
        configTreasury |-> Null,
        agent |-> agent,
        vaultPDA |-> getVaultPda(pda, VaultIndex)]

\* constructor(connection, feePayer, agent, create_key?): `generated` is
\* what Keypair.generate() returns when no create key is passed.
Constructor(feePayer, agent, create_key, generated) ==
    LET createKey == IF create_key # NoKey THEN create_key ELSE generated
        pda == getMultisigPda(createKey)
    IN [feePayer |-> feePayer,
        createKey |-> createKey,
        multisigPda |-> pda,
        configTreasury |-> Null,
        agent |-> agent,
        vaultPDA |-> getVaultPda(pda, VaultIndex)]

\* The RPC requests a call issues.
GetAccountInfo(address) == [method |-> "getAccountInfo", address |-> address]
GetLatestBlockhash == [method |-> "getLatestBlockhash", address |-> <<"none">>]

\* A call slot nobody uses.
FreeCall ==
    [svc |-> 0, op |-> "none", pc |-> "free", ix |-> <<>>,
     requests |-> <<>>, tx_message |-> Null,
     currentTransactionIndex |-> NoIndex,
     value |-> <<>>, create_key |-> NoKey]

Awaiting == {"awaitProgramConfig", "awaitBlockhash", "awaitMultisig",
             "awaitExecute"}

\* A createMultiSig that asks for two approvals.
createMultiSigIx_thresholdTwo(self) ==
    [kind |-> "multisigCreateV2",
     createKey |-> self.createKey,
     creator |-> self.feePayer,
     multisigPda |-> self.multisigPda,
     configAuthority |-> self.feePayer,
     timeLock |-> TimeLock,
     members |-> <<Member(self.feePayer), Member(self.agent)>>,
     threshold |-> Threshold + 1,
     treasury |-> self.configTreasury,
     rentCollector |-> self.feePayer]

\* multisig.instructions.multisigCreateV2({...}) as createMultiSig calls it,
\* after this.configTreasury was set.
createMultiSigIx(self) ==
    [kind |-> "multisigCreateV2",
     createKey |-> self.createKey,
     creator |-> self.feePayer,
     multisigPda |-> self.multisigPda,
     configAuthority |-> self.feePayer,
     timeLock |-> TimeLock,
     members |-> <<Member(self.feePayer), Member(self.agent)>>,
     threshold |-> Threshold,
     treasury |-> self.configTreasury,
     rentCollector |-> self.feePayer]

\* An addSpendingLimit that builds for the instance's create key instead of
\* the one it has just generated.
addSpendingLimitIx_instanceKey(self, spendingLimitCreateKey) ==
    [kind |-> "multisigAddSpendingLimit",
     multisigPda |-> self.multisigPda,
     configAuthority |-> self.feePayer,
     spendingLimit |-> getSpendingLimitPda(self.multisigPda, self.createKey),
     rentPayer |-> self.feePayer,
     createKey |-> self.createKey,
     vaultIndex |-> VaultIndex,
     mint |-> UsdcMint,
     amount |-> SpendingLimitAmount,
     period |-> "Day",
     members |-> <<self.agent>>,
     destinations |-> <<>>]

\* multisig.instructions.multisigAddSpendingLimit({...}) as addSpendingLimit
\* calls it, for the create key it has just generated.
addSpendingLimitIx(self, spendingLimitCreateKey) ==
    [kind |-> "multisigAddSpendingLimit",
     multisigPda |-> self.multisigPda,
     configAuthority |-> self.feePayer,
     spendingLimit |->
        getSpendingLimitPda(self.multisigPda, spendingLimitCreateKey),
     rentPayer |-> self.feePayer,
     createKey |-> spendingLimitCreateKey,
     vaultIndex |-> VaultIndex,
     mint |-> UsdcMint,
     amount |-> SpendingLimitAmount,
     period |-> "Day",
     members |-> <<self.agent>>,
     destinations |-> <<>>]

\* new TransactionMessage({payerKey, recentBlockhash, instructions})
TransactionMessage(payerKey, instructions) ==
    [payerKey |-> payerKey,
     recentBlockhash |-> "blockhash",
     instructions |-> instructions]

\* A sendTx with the index hardcoded, as executeTx has it.
newTransactionIndex_hardcoded(transactionIndex) == ExecuteTransactionIndex

\* A sendTx that gives its instructions the index it read.
newTransactionIndex_current(transactionIndex) == transactionIndex

\* The index sendTx gives its instructions:
\* BigInt(Number(multisigInfo.transactionIndex) + 1).  Number() is exact
\* below 2^53, far above any index the ledger reaches here.
newTransactionIndex(transactionIndex) == transactionIndex + 1

\* A sendTx whose proposal create carries the index it read, not the new one.
sendTxIxs_createAtCurrent(self, tx_message, transactionIndex) ==
    <<[kind |-> "vaultTransactionCreate",
       multisigPda |-> self.multisigPda,
       transactionIndex |-> newTransactionIndex(transactionIndex),
       creator |-> self.agent,
       vaultIndex |-> VaultIndex,
       ephemeralSigners |-> EphemeralSigners,
       transactionMessage |-> tx_message],
      [kind |-> "proposalCreate",
       multisigPda |-> self.multisigPda,
       transactionIndex |-> transactionIndex,
       creator |-> self.agent],
      [kind |-> "proposalApprove",
       multisigPda |-> self.multisigPda,
       member |-> self.agent,
       transactionIndex |-> newTransactionIndex(transactionIndex)]>>

\* The three instructions sendTx builds once it has read the account:
\* <<transfer_ix, create_ix, approve_ix>> in the order the script submits them.
sendTxIxs(self, tx_message, transactionIndex) ==
    <<[kind |-> "vaultTransactionCreate",
       multisigPda |-> self.multisigPda,
       transactionIndex |-> newTransactionIndex(transactionIndex),
       creator |-> self.agent,
       vaultIndex |-> VaultIndex,
       ephemeralSigners |-> EphemeralSigners,
       transactionMessage |-> tx_message],
      [kind |-> "proposalCreate",
       multisigPda |-> self.multisigPda,
       transactionIndex |-> newTransactionIndex(transactionIndex),
       creator |-> self.agent],
      [kind |-> "proposalApprove",
       multisigPda |-> self.multisigPda,
       member |-> self.agent,
       transactionIndex |-> newTransactionIndex(transactionIndex)]>>

\* An executeTx that approves the proposal before it executes it.
executeTxIxs_approving(self) ==
    <<[kind |-> "proposalApprove",
       multisigPda |-> self.multisigPda,
       member |-> self.agent,
       transactionIndex |-> ExecuteTransactionIndex],
      [kind |-> "vaultTransactionExecute",
       multisigPda |-> self.multisigPda,
       transactionIndex |-> ExecuteTransactionIndex,
       member |-> self.agent]>>

\* An executeTx that executes the account's latest transaction.
executeTxIxs_latest(self) ==
    <<[kind |-> "vaultTransactionExecute",
       multisigPda |-> self.multisigPda,
       transactionIndex |->
            IF MultisigAt(ledger, self.multisigPda) = {}
            THEN ExecuteTransactionIndex
            ELSE (CHOOSE m \in MultisigAt(ledger, self.multisigPda) : TRUE)
                    .transactionIndex,
       member |-> self.agent]>>

\* What executeTx returns:
\* multisig.instructions.vaultTransactionExecute({...}).
executeTxIxs(self) ==
    <<[kind |-> "vaultTransactionExecute",
       multisigPda |-> self.multisigPda,
       transactionIndex |-> ExecuteTransactionIndex,
       member |-> self.agent]>>

(* ---------------------- the service calls, by step --------------------- *)

Start(c, i, op, pc, ix, request) ==
    [calls EXCEPT ![c] =
        [FreeCall EXCEPT !.svc = i, !.op = op, !.pc = pc, !.ix = ix,
                         !.requests = <<request>>]]

\* createMultiSig up to its await: the program config account is requested.
createMultiSigCall(c, i) ==
    /\ calls[c].pc = "free"
    /\ calls' = Start(c, i, "createMultiSig", "awaitProgramConfig", <<>>,
                      GetAccountInfo(getProgramConfigPda))
    /\ UNCHANGED <<ledger, svc, usedKeys, driver, botVars>>

\* A createMultiSig that keeps the treasury an earlier call stored.
setConfigTreasury_cached(self, programConfig) ==
    IF self.configTreasury # Null THEN self
    ELSE [self EXCEPT !.configTreasury = programConfig.treasury]

\* this.configTreasury = programConfig.treasury
setConfigTreasury(self, programConfig) ==
    [self EXCEPT !.configTreasury = programConfig.treasury]

\* createMultiSig from the program config's arrival to its return.
createMultiSigResume(c) ==
    /\ calls[c].pc = "awaitProgramConfig"
    /\ LET i == calls[c].svc
           programConfig == [treasury |-> ledger.treasury]
           self == setConfigTreasury(svc[i], programConfig)
       IN /\ svc' = [svc EXCEPT ![i] = self]
          /\ calls' = [calls EXCEPT ![c] =
                [@ EXCEPT !.pc = "returned",
                          !.value = <<createMultiSigIx(self)>>,
                          !.create_key = self.createKey]]
    /\ UNCHANGED <<ledger, usedKeys, driver, botVars>>

\* addSpendingLimit has no await: it generates a key, builds and returns.
addSpendingLimit(c, i, generated) ==
    /\ calls[c].pc = "free"
    /\ generated \in GenKeys \ usedKeys
    /\ usedKeys' = usedKeys \cup {generated}
    /\ calls' = [calls EXCEPT ![c] =
            [FreeCall EXCEPT
                !.svc = i, !.op = "addSpendingLimit", !.pc = "returned",
                !.value = <<addSpendingLimitIx(svc[i], generated)>>,
                !.create_key = generated]]
    /\ UNCHANGED <<ledger, svc, driver, botVars>>

\* sendTx up to its first await: the latest blockhash is requested.
sendTxCall(c, i, ix) ==
    /\ calls[c].pc = "free"
    /\ calls' = Start(c, i, "sendTx", "awaitBlockhash", ix, GetLatestBlockhash)
    /\ UNCHANGED <<ledger, svc, usedKeys, driver, botVars>>

\* sendTx from the blockhash to its second await: tx_message is built and
\* the multisig account is requested.
sendTxBlockhash(c) ==
    /\ calls[c].pc = "awaitBlockhash"
    /\ calls' = [calls EXCEPT ![c] =
            [@ EXCEPT
                !.pc = "awaitMultisig",
                !.tx_message =
                    TransactionMessage(svc[calls[c].svc].agent, calls[c].ix),
                !.requests =
                    Append(@, GetAccountInfo(svc[calls[c].svc].multisigPda))]]
    /\ UNCHANGED <<ledger, svc, usedKeys, driver, botVars>>

\* A sendTx that also submits what it built.
sendTxResume_submitting(c) ==
    /\ calls[c].pc = "awaitMultisig"
    /\ LET self == svc[calls[c].svc]
           found == MultisigAt(ledger, self.multisigPda)
       IN IF found = {}
          THEN /\ calls' = [calls EXCEPT ![c] = [@ EXCEPT !.pc = "rejected"]]
               /\ ledger' = ledger
          ELSE \E multisigInfo \in found :
                LET built == sendTxIxs(self, calls[c].tx_message,
                                       multisigInfo.transactionIndex)
                IN /\ calls' = [calls EXCEPT ![c] =
                        [@ EXCEPT
                            !.pc = "returned",
                            !.currentTransactionIndex =
                                multisigInfo.transactionIndex,
                            !.value = built]]
                   /\ ledger' = ApplyTransaction(ledger, built).L
    /\ UNCHANGED <<svc, usedKeys, driver, botVars>>

\* sendTx from the multisig account's arrival to its return.
\* Multisig.fromAccountAddress throws when the account does not exist.
sendTxResume(c) ==
    /\ calls[c].pc = "awaitMultisig"
    /\ LET self == svc[calls[c].svc]
           found == MultisigAt(ledger, self.multisigPda)
       IN IF found = {}
          THEN calls' = [calls EXCEPT ![c] = [@ EXCEPT !.pc = "rejected"]]
          ELSE \E multisigInfo \in found :
                calls' = [calls EXCEPT ![c] =
                    [@ EXCEPT
                        !.pc = "returned",
                        !.currentTransactionIndex =
                            multisigInfo.transactionIndex,
                        !.value = sendTxIxs(self, calls[c].tx_message,
                                            multisigInfo.transactionIndex)]]
    /\ UNCHANGED <<ledger, svc, usedKeys, driver, botVars>>

\* executeTx up to its await: vaultTransactionExecute is handed the
\* connection and fetches the vault transaction account of its index.
executeTxCall(c, i) ==
    /\ calls[c].pc = "free"
    /\ calls' = Start(c, i, "executeTx", "awaitExecute", <<>>,
                      GetAccountInfo(<<"transaction", svc[i].multisigPda,
                                       ExecuteTransactionIndex>>))
    /\ UNCHANGED <<ledger, svc, usedKeys, driver, botVars>>

\* executeTx from the builder's return to its own.
executeTxResume(c) ==
    /\ calls[c].pc = "awaitExecute"
    /\ LET self == svc[calls[c].svc]
       IN IF VaultTransactionsAt(ledger, self.multisigPda,
                                 ExecuteTransactionIndex) = {}
          THEN calls' = [calls EXCEPT ![c] = [@ EXCEPT !.pc = "rejected"]]
          ELSE calls' = [calls EXCEPT ![c] =
                    [@ EXCEPT !.pc = "returned", !.value = executeTxIxs(self)]]
    /\ UNCHANGED <<ledger, svc, usedKeys, driver, botVars>>

\* A call that issues its request again when it fails.
RpcFailure_retry(c) ==
    /\ calls[c].pc \in Awaiting
    /\ calls' = [calls EXCEPT ![c] =
            [@ EXCEPT !.requests = Append(@, @[Len(@)])]]
    /\ UNCHANGED <<ledger, svc, usedKeys, driver, botVars>>

\* The request a call awaits fails: the await throws, nothing catches it,
\* and the call's promise is rejected.
RpcFailure(c) ==
    /\ calls[c].pc \in Awaiting
    /\ calls' = [calls EXCEPT ![c] = [@ EXCEPT !.pc = "rejected"]]
    /\ UNCHANGED <<ledger, svc, usedKeys, driver, botVars>>

(* ------------------------------ the caller ----------------------------- *)

WithinBounds(L) ==
    \A m \in L.multisigs : m.transactionIndex <= MaxTransactionIndex

\* connection.sendRawTransaction of a transaction made of `ixs`: the request
\* may fail before it reaches the ledger; otherwise the program runs it, and
\* a transaction it rejects leaves the ledger as it was.
SendRawTransaction(ixs, delivered) ==
    LET r == ApplyTransaction(ledger, ixs)
    IN /\ WithinBounds(r.L)
       /\ ledger' = IF delivered THEN r.L ELSE ledger

\* The caller submits instructions a .. b of what call c returned.
Submit(c, a, b) ==
    /\ calls[c].pc = "returned"
    /\ 1 <= a /\ a <= b /\ b <= Len(calls[c].value)
    /\ \E delivered \in BOOLEAN :
            SendRawTransaction(SubSeq(calls[c].value, a, b), delivered)
    /\ UNCHANGED <<svc, calls, usedKeys, driver, botVars>>

\* The caller is done with a call's result (or its rejection).
Release(c) ==
    /\ calls[c].pc \in {"returned", "rejected"}
    /\ calls' = [calls EXCEPT ![c] = FreeCall]
    /\ UNCHANGED <<ledger, svc, usedKeys, driver, botVars>>

\* The program's authority moves the treasury of the program config (once,
\* from the first treasury to another).
ProgramConfigChange(treasury) ==
    /\ ledger.treasury = FirstTreasury
    /\ treasury # ledger.treasury
    /\ ledger' = [ledger EXCEPT !.treasury = treasury]
    /\ UNCHANGED <<svc, calls, usedKeys, driver, botVars>>

(* --------------------------- the specification ------------------------- *)
(* Spec: a caller that awaits every call before it makes the next one (as  *)
(* the script does), on a ledger whose program config can change.          *)

DriverOff == [pc |-> "off"]

\* The call slot of the caller that awaits each call.
Sequential == {1}

\* Two instances after construction, on an empty ledger, both passed the
\* same create key: instance 1 is built for feePayerA and agentA, instance 2
\* for feePayerB and agentB.
Init ==
    /\ ledger = EmptyLedger(FirstTreasury)
    /\ \E k \in GivenKeys, g \in GenKeys :
            svc = [i \in Services |->
                     IF i = 1
                     THEN Constructor("feePayerA", "agentA", k, g)
                     ELSE Constructor("feePayerB", "agentB", k, g)]
    /\ usedKeys = {}
    /\ calls = [c \in Calls |-> FreeCall]
    /\ driver = DriverOff
    /\ BotOff

Next ==
    \/ \E c \in Sequential, i \in Services : createMultiSigCall(c, i)
    \/ \E c \in Sequential : createMultiSigResume(c)
    \/ \E c \in Sequential, i \in Services, k \in GenKeys :
            addSpendingLimit(c, i, k)
    \/ \E c \in Sequential, i \in Services, ix \in InnerInstructions :
            sendTxCall(c, i, ix)
    \/ \E c \in Sequential : sendTxBlockhash(c)
    \/ \E c \in Sequential : sendTxResume(c)
    \/ \E c \in Sequential, i \in Services : executeTxCall(c, i)
    \/ \E c \in Sequential : executeTxResume(c)
    \/ \E c \in Sequential : RpcFailure(c)
    \/ \E c \in Sequential : Release(c)
    \/ \E c \in Sequential, a \in 1 .. 3, b \in 1 .. 3 : Submit(c, a, b)
    \/ \E t \in Treasuries : ProgramConfigChange(t)

Spec == Init /\ [][Next]_vars

(* SpecRace: the multisig account exists (instance 1 created it) and two   *)
(* callers propose and execute on it at the same time, through instance 1  *)
(* or through an instance 2 built with the same create key for any fee     *)
(* payer and agent.                                                        *)

\* The ledger and instance i once what its createMultiSig built is accepted.
AfterCreate(self, treasury) ==
    LET created == setConfigTreasury(self, [treasury |-> treasury])
    IN [self |-> created,
        ledger |-> ApplyTransaction(EmptyLedger(treasury),
                                    <<createMultiSigIx(created)>>).L]

InitRace ==
    /\ \E fp \in FeePayers, ag \in Agents, k \in GivenKeys, g \in GenKeys :
         LET first == AfterCreate(
                        Constructor("feePayerA", "agentA", k, g), FirstTreasury)
         IN /\ ledger = first.ledger
            /\ svc = [i \in Services |->
                        IF i = 1 THEN first.self
                        ELSE Constructor(fp, ag, k, g)]
    /\ usedKeys = {}
    /\ calls = [c \in Calls |-> FreeCall]
    /\ driver = DriverOff
    /\ BotOff

NextRace ==
    \/ \E c \in Calls, i \in Services, ix \in InnerInstructions :
            sendTxCall(c, i, ix)
    \/ \E c \in Calls : sendTxBlockhash(c)
    \/ \E c \in Calls : sendTxResume(c)
    \/ \E c \in Calls, i \in Services : executeTxCall(c, i)
    \/ \E c \in Calls : executeTxResume(c)
    \/ \E c \in Calls : RpcFailure(c)
    \/ \E c \in Calls : Release(c)
    \/ \E c \in Calls, a \in 1 .. 3, b \in 1 .. 3 : Submit(c, a, b)

SpecRace == InitRace /\ [][NextRace]_vars

(* SpecDriver: the script.  It builds one instance without a create key,   *)
(* and its top-level awaits run one after the other; an await that throws  *)
(* ends the script.  driver.pc names the line the script is at.            *)

DriverStart ==
    [pc |-> "L26", ix |-> <<>>, create_key |-> NoKey,
     addSpendingLimitIx |-> <<>>, proposal |-> <<>>, ix_execute |-> <<>>,
     confirmed |-> <<>>]

\* The script's only instance and the call slot its awaits use.
Script == 1

InitDriver ==
    /\ \E treasury \in Treasuries : ledger = EmptyLedger(treasury)
    /\ \E feePayer \in FeePayers, agent \in Agents, g \in GenKeys :
         /\ svc = [i \in {Script} |-> Constructor(feePayer, agent, NoKey, g)]
         /\ usedKeys = {g}
    /\ calls = [c \in Calls |-> FreeCall]
    /\ driver = DriverStart
    /\ BotOff

\* The line after each await of the script.
AfterLine(pc) ==
    CASE pc = "L26" -> "L28"
      [] pc = "L28" -> "L35"
      [] pc = "L35" -> "L39"
      [] pc = "L39" -> "L43"
      [] pc = "L43" -> "L51"
      [] pc = "L51" -> "L61"
      [] pc = "L61" -> "L65"
      [] pc = "L65" -> "L75"
      [] pc = "L75" -> "L79"
      [] pc = "L79" -> "L81"
      [] pc = "L81" -> "L85"
      [] pc = "L85" -> "L92"
      [] pc = "L92" -> "done"

\* Lines 26, 28, 61, 81: the script calls a method of the service.
DriverCall ==
    \/ driver.pc = "L26" /\ createMultiSigCall(Script, Script)
    \/ driver.pc = "L28" /\ \E k \in GenKeys : addSpendingLimit(Script, Script, k)
    \/ driver.pc = "L61" /\
            sendTxCall(Script, Script, <<"SystemProgram.transfer">>)
    \/ driver.pc = "L81" /\ executeTxCall(Script, Script)

\* The awaited call returns: the script keeps what it destructures.
DriverReturn ==
    /\ driver.pc \in {"L26", "L28", "L61", "L81"}
    /\ calls[Script].pc = "returned"
    /\ LET ret == calls[Script]
       IN driver' =
            [driver EXCEPT
                !.pc = AfterLine(driver.pc),
                !.ix = IF driver.pc = "L26" THEN ret.value ELSE @,
                !.create_key = IF driver.pc = "L26" THEN ret.create_key ELSE @,
                !.addSpendingLimitIx =
                    IF driver.pc = "L28" THEN ret.value ELSE @,
                !.proposal = IF driver.pc = "L61" THEN ret.value ELSE @,
                !.ix_execute = IF driver.pc = "L81" THEN ret.value ELSE @]
    /\ calls' = [calls EXCEPT ![Script] = FreeCall]
    /\ UNCHANGED <<ledger, svc, usedKeys, botVars>>

\* A script that catches the rejection and makes the call again.
DriverThrow_resuming ==
    /\ driver.pc \in {"L26", "L28", "L61", "L81"}
    /\ calls[Script].pc = "rejected"
    /\ calls' = [calls EXCEPT ![Script] = FreeCall]
    /\ UNCHANGED <<ledger, svc, usedKeys, driver, botVars>>

\* The awaited call is rejected: the top-level await throws.
DriverThrow ==
    /\ driver.pc \in {"L26", "L28", "L61", "L81"}
    /\ calls[Script].pc = "rejected"
    /\ driver' = [driver EXCEPT !.pc = "crashed"]
    /\ calls' = [calls EXCEPT ![Script] = FreeCall]
    /\ UNCHANGED <<ledger, svc, usedKeys, botVars>>

\* A script that starts confirmTransaction and goes on without awaiting it.
DriverRpc_notAwaited ==
    /\ driver.pc \in {"L35", "L65", "L85", "L43", "L79", "L51"}
    /\ \E answered \in BOOLEAN :
         driver' =
            [driver EXCEPT
                !.pc = IF answered \/ driver.pc \in {"L43", "L79"}
                       THEN AfterLine(driver.pc) ELSE "crashed"]
    /\ UNCHANGED <<ledger, svc, calls, usedKeys, botVars>>

\* Lines 35, 65, 85 (getLatestBlockhash), 43, 79 (confirmTransaction) and
\* 51 (requestAirdrop): a request that answers or fails.
DriverRpc ==
    /\ driver.pc \in {"L35", "L65", "L85", "L43", "L79", "L51"}
    /\ \E answered \in BOOLEAN :
         driver' =
            [driver EXCEPT
                !.pc = IF answered THEN AfterLine(driver.pc) ELSE "crashed",
                !.confirmed =
                    IF answered /\ driver.pc \in {"L43", "L79"}
                    THEN Append(@, driver.pc) ELSE @]
    /\ UNCHANGED <<ledger, svc, calls, usedKeys, botVars>>

\* The transaction the script sends at lines 39, 75 and 92.
DriverTransaction ==
    CASE driver.pc = "L39" -> driver.ix \o driver.addSpendingLimitIx
      [] driver.pc = "L75" -> driver.proposal
      [] driver.pc = "L92" -> driver.ix_execute

\* Lines 39, 75, 92: sendRawTransaction.  The request may not reach the
\* ledger, the program may reject the transaction, or the answer may be
\* lost: each throws.  Otherwise the script goes on.
DriverSend ==
    /\ driver.pc \in {"L39", "L75", "L92"}
    /\ \E delivered \in BOOLEAN, answered \in BOOLEAN :
         LET r == ApplyTransaction(ledger, DriverTransaction)
         IN /\ WithinBounds(r.L)
            /\ ledger' = IF delivered THEN r.L ELSE ledger
            /\ driver' =
                [driver EXCEPT
                    !.pc = IF delivered /\ r.ok /\ answered
                           THEN AfterLine(driver.pc) ELSE "crashed"]
    /\ UNCHANGED <<svc, calls, usedKeys, botVars>>

NextDriver ==
    \/ DriverCall
    \/ createMultiSigResume(Script)
    \/ sendTxBlockhash(Script)
    \/ sendTxResume(Script)
    \/ executeTxResume(Script)
    \/ RpcFailure(Script)
    \/ DriverReturn
    \/ DriverThrow
    \/ DriverRpc
    \/ DriverSend

SpecDriver == InitDriver /\ [][NextDriver]_vars

(* ------------------------------- claims -------------------------------- *)

\* Call c returns from sendTx in this step.
sendTxReturns(c) ==
    /\ calls[c].op = "sendTx"
    /\ calls[c].pc = "awaitMultisig"
    /\ calls'[c].pc = "returned"

Indices(ixs) == {ixs[n].transactionIndex : n \in 1 .. Len(ixs)}

Kinds(ixs) == [n \in 1 .. Len(ixs) |-> ixs[n].kind]

\* C1: whenever sendTx returns, the index c it read is the transaction index
\* the multisig account holds at that moment, and the vault-transaction
\* create, the proposal create and the proposal approve it returns all carry
\* index c + 1.
C1_SendTxIndexIsReadPlusOne ==
    [][\A c \in Calls :
        sendTxReturns(c) =>
            /\ \E m \in MultisigAt(ledger, svc[calls[c].svc].multisigPda) :
                    calls'[c].currentTransactionIndex = m.transactionIndex
            /\ Kinds(calls'[c].value) =
                    <<"vaultTransactionCreate", "proposalCreate",
                      "proposalApprove">>
            /\ Indices(calls'[c].value) =
                    {calls'[c].currentTransactionIndex + 1}]_vars

\* C1 witness: a sendTx has returned after it read a transaction index
\* that other proposals had already advanced.
C1_Witness ==
    \E c \in Calls :
        /\ calls[c].op = "sendTx"
        /\ calls[c].pc = "returned"
        /\ calls[c].currentTransactionIndex = 1
        /\ Indices(calls[c].value) = {2}

\* Call c holds what a sendTx returned.
sendTxReturned(c) == calls[c].op = "sendTx" /\ calls[c].pc = "returned"

\* The multisig account instance i works on, as a set (empty: no account).
AccountOf(i) == MultisigAt(ledger, svc[i].multisigPda)

\* The transaction index of a returned sendTx is one the account has
\* already handed out: the read it was built from is stale.
Stale(c) ==
    \E m \in AccountOf(calls[c].svc) :
        calls[c].currentTransactionIndex < m.transactionIndex

\* One vault transaction and at most one proposal per handed-out index.
OnePerIndex(L) ==
    /\ \A t, u \in L.vaultTransactions :
            t.multisig = u.multisig /\ t.index = u.index => t = u
    /\ \A p, q \in L.proposals :
            p.multisig = q.multisig
                /\ p.transactionIndex = q.transactionIndex => p = q

\* Every account the ledger held is still there; a proposal may have
\* gained approvals or moved on, but it is the proposal of the same index.
NothingOverwritten(L, M) ==
    /\ L.vaultTransactions \subseteq M.vaultTransactions
    /\ \A p \in L.proposals :
         \E q \in M.proposals :
            /\ q.multisig = p.multisig
            /\ q.transactionIndex = p.transactionIndex
            /\ p.approved \subseteq q.approved

\* C2: two sendTx calls that read the same transaction index of the same
\* account build all their instructions for one and the same index; once the
\* read is stale (the other's vault transaction was accepted) the program
\* rejects the whole bundle and its vault-transaction create, so the ledger
\* never holds two vault transactions or two proposals for one index and
\* never loses or replaces one; and a call that has returned is never resumed
\* to read again: it made its one read of the account and keeps what it built.
C2_SameIndexOneAccepted ==
    /\ [](\A c, d \in Calls :
            sendTxReturned(c) /\ sendTxReturned(d)
                /\ svc[calls[c].svc].multisigPda = svc[calls[d].svc].multisigPda
                /\ calls[c].currentTransactionIndex
                        = calls[d].currentTransactionIndex
            => \E k \in 1 .. MaxTransactionIndex + 1 :
                    Indices(calls[c].value) \cup Indices(calls[d].value) = {k})
    /\ [](\A c \in Calls :
            sendTxReturned(c) /\ Stale(c)
            => /\ ~ApplyTransaction(ledger, calls[c].value).ok
               /\ ~ApplyTransaction(ledger, SubSeq(calls[c].value, 1, 1)).ok)
    /\ [](OnePerIndex(ledger))
    /\ [][/\ NothingOverwritten(ledger, ledger')
          /\ \A c \in Calls :
                sendTxReturned(c) =>
                    /\ calls'[c] \in {calls[c], FreeCall}
                    /\ calls[c].requests =
                        <<GetLatestBlockhash,
                          GetAccountInfo(svc[calls[c].svc].multisigPda)>>]_vars

\* C2 witness: two sendTx calls have returned bundles for the same index of
\* the same account, and the ledger has accepted a vault transaction and a
\* proposal for that index: the bundle still held is the one that loses.
C2_Witness ==
    \E c, d \in Calls :
        /\ c # d
        /\ sendTxReturned(c) /\ sendTxReturned(d)
        /\ svc[calls[c].svc].multisigPda = svc[calls[d].svc].multisigPda
        /\ calls[c].currentTransactionIndex = calls[d].currentTransactionIndex
        /\ Stale(c) /\ Stale(d)
        /\ \E k \in Indices(calls[c].value) :
              /\ VaultTransactionsAt(ledger, svc[calls[c].svc].multisigPda, k)
                    # {}
              /\ ProposalsAt(ledger, svc[calls[c].svc].multisigPda, k) # {}

\* The indices of the vault transactions and proposals of an account.
UsedIndices(L, pda) ==
    {t.index : t \in {u \in L.vaultTransactions : u.multisig = pda}}
        \cup {p.transactionIndex :
                p \in {q \in L.proposals : q.multisig = pda}}

\* C3: when sendTx returns while the account's latest proposal (the one of
\* its current transaction index) has not been executed, the index it builds
\* for is that proposal's index + 1, an index no vault transaction and no
\* proposal of the account has; and on the ledger the vault transactions of
\* an account carry the indices 1 .. its transaction index, one each.
C3_SecondProposalNextIndex ==
    /\ [][\A c \in Sequential :
            sendTxReturns(c) =>
                \A m \in AccountOf(calls[c].svc) :
                  \A first \in ProposalsAt(ledger, m.address,
                                           m.transactionIndex) :
                    first.status # "Executed" =>
                        /\ Indices(calls'[c].value)
                                = {first.transactionIndex + 1}
                        /\ Indices(calls'[c].value)
                                \cap UsedIndices(ledger, m.address) = {}]_vars
    /\ [](\A m \in ledger.multisigs :
            /\ {t.index : t \in {u \in ledger.vaultTransactions :
                                    u.multisig = m.address}}
                    = 1 .. m.transactionIndex
            /\ UsedIndices(ledger, m.address) \subseteq 1 .. m.transactionIndex
            /\ OnePerIndex(ledger))

\* C3 witness: a second proposal sits at index 2 while the first, at index
\* 1, has been approved and not executed.
C3_Witness ==
    \E m \in ledger.multisigs :
        /\ \E first \in ProposalsAt(ledger, m.address, 1) :
                first.status = "Approved"
        /\ ProposalsAt(ledger, m.address, 2) # {}
        /\ VaultTransactionsAt(ledger, m.address, 2) # {}

\* The script's multisig account and the proposal its sendTx built.
DriverProposals ==
    ProposalsAt(ledger, svc[Script].multisigPda, ExecuteTransactionIndex)

\* C4: in the script, from a ledger without the multisig account: once the
\* creation transaction is accepted the account has threshold 1 and two
\* members; once the proposal transaction is accepted the proposal of index 1
\* is Approved by the agent's single approval; and when the script has sent
\* its execute transaction and ended, that proposal is Executed.
C4_CreateProposeExecute ==
    /\ driver.pc \notin {"L26", "L28", "L35", "L39", "crashed"} =>
            \E m \in AccountOf(Script) :
                /\ m.threshold = 1
                /\ m.members = {svc[Script].feePayer, svc[Script].agent}
                /\ Cardinality(m.members) = 2
    /\ driver.pc \in {"L79", "L81", "L85", "L92"} =>
            /\ DriverProposals # {}
            /\ \A p \in DriverProposals :
                    p.status = "Approved" /\ p.approved = {svc[Script].agent}
    /\ driver.pc = "done" =>
            /\ DriverProposals # {}
            /\ \A p \in DriverProposals :
                    p.status = "Executed" /\ p.approved = {svc[Script].agent}

\* C4 witness: the script has run to its end.
C4_Witness ==
    /\ driver.pc = "done"
    /\ driver.confirmed = <<"L43", "L79">>

\* Call c holds what an executeTx returned.
executeTxReturned(c) == calls[c].op = "executeTx" /\ calls[c].pc = "returned"

\* The proposal has fewer approvals than its account's threshold.
BelowThreshold(p) ==
    \E m \in MultisigAt(ledger, p.multisig) :
        Cardinality(p.approved) < m.threshold

\* C5: a proposal becomes Executed only in a step that finds it Approved,
\* and it is Approved or Executed only with approvals >= the threshold; what
\* executeTx returns is the execute instruction alone (no approval), built
\* whatever the approvals are; and submitted for a proposal with fewer
\* approvals than the threshold it is rejected and the ledger stays as it is.
C5_ExecuteOnlyWhenApproved ==
    /\ [][\A q \in ledger'.proposals :
            q.status = "Executed" =>
                \E p \in ProposalsAt(ledger, q.multisig, q.transactionIndex) :
                    /\ p.status \in {"Approved", "Executed"}
                    /\ ~BelowThreshold(p)
                    /\ q.approved = p.approved]_vars
    /\ [](\A p \in ledger.proposals :
            p.status \in {"Approved", "Executed"} <=> ~BelowThreshold(p))
    /\ [](\A c \in Sequential :
            executeTxReturned(c) =>
                /\ Kinds(calls[c].value) = <<"vaultTransactionExecute">>
                /\ \A p \in ProposalsAt(ledger,
                                        calls[c].value[1].multisigPda,
                                        calls[c].value[1].transactionIndex) :
                        BelowThreshold(p) =>
                            ApplyTransaction(ledger, calls[c].value)
                                = Rejected(ledger))

\* C5 witness: executeTx has returned its instruction while the proposal it
\* names is a Draft without any approval.
C5_Witness ==
    \E c \in Sequential :
        /\ executeTxReturned(c)
        /\ \E p \in ProposalsAt(ledger, calls[c].value[1].multisigPda,
                                calls[c].value[1].transactionIndex) :
                p.status = "Draft" /\ p.approved = {} /\ BelowThreshold(p)

\* Call c holds what a createMultiSig returned.
createMultiSigReturned(c) ==
    calls[c].op = "createMultiSig" /\ calls[c].pc = "returned"

\* C6: instances built with the same create key hold the same multisig
\* address and the same vault address, whatever their fee payer and agent;
\* and every createMultiSig builds its instruction for its instance's
\* address and create key, and returns that create key.
C6_AddressFromCreateKey ==
    /\ \A i, j \in DOMAIN svc :
            svc[i].createKey = svc[j].createKey =>
                /\ svc[i].multisigPda = svc[j].multisigPda
                /\ svc[i].vaultPDA = svc[j].vaultPDA
    /\ \A c \in Sequential :
            createMultiSigReturned(c) =>
                /\ Kinds(calls[c].value) = <<"multisigCreateV2">>
                /\ calls[c].value[1].multisigPda
                        = svc[calls[c].svc].multisigPda
                /\ calls[c].value[1].createKey = svc[calls[c].svc].createKey
                /\ calls[c].create_key = svc[calls[c].svc].createKey
                /\ \A j \in DOMAIN svc :
                        svc[j].createKey = calls[c].create_key =>
                            svc[j].multisigPda = calls[c].value[1].multisigPda

\* C6 witness: an instance with another fee payer and agent has built a
\* create instruction for the address at which the first instance's account
\* already exists.
C6_Witness ==
    \E c \in Sequential :
        /\ createMultiSigReturned(c)
        /\ \E m \in MultisigAt(ledger, calls[c].value[1].multisigPda) :
              /\ m.configAuthority # calls[c].value[1].creator
              /\ m.members # MemberKeys(calls[c].value[1].members)

\* Call c returns from addSpendingLimit in this step.
addSpendingLimitReturns(c) ==
    calls[c].pc = "free" /\ calls'[c].op = "addSpendingLimit"

\* C7: every addSpendingLimit returns a create key no earlier call returned
\* and builds its instruction for that key and the address derived from it,
\* an address and key no spending limit on the ledger has; a spending limit
\* on the ledger is never removed or replaced, and no two share an address.
C7_SpendingLimitsIndependent ==
    /\ [][\A c \in Sequential :
            addSpendingLimitReturns(c) =>
                LET ix == calls'[c].value[1]
                IN /\ calls'[c].create_key \notin usedKeys
                   /\ ix.createKey = calls'[c].create_key
                   /\ ix.spendingLimit =
                        getSpendingLimitPda(svc[calls'[c].svc].multisigPda,
                                            calls'[c].create_key)
                   /\ \A s \in ledger.spendingLimits :
                        /\ s.createKey # ix.createKey
                        /\ s.address # ix.spendingLimit]_vars
    /\ [][ledger.spendingLimits \subseteq ledger'.spendingLimits]_vars
    /\ [](\A s, t \in ledger.spendingLimits : s.address = t.address => s = t)

\* C7 witness: the instructions of two addSpendingLimit calls of one
\* instance were submitted and the account has two spending limits, with
\* different create keys and addresses.
C7_Witness ==
    \E s, t \in ledger.spendingLimits :
        /\ s.multisig = t.multisig
        /\ s.members = t.members
        /\ s.createKey # t.createKey
        /\ s.address # t.address

\* The calls that read on-chain state to build their instruction.
Reading(c) == calls[c].op \in {"createMultiSig", "sendTx"}

Finished(c) == calls[c].pc \in {"returned", "rejected"}

\* C8 as stated: a createMultiSig or sendTx call that has ended made exactly
\* one request to the ledger, and a rejected one returned no instruction.
C8_ExactlyOneLedgerRead ==
    \A c \in Sequential :
        Reading(c) /\ Finished(c) =>
            /\ Len(calls[c].requests) = 1
            /\ calls[c].pc = "rejected" => calls[c].value = <<>>

\* What a call has requested from the ledger by the time it is at pc.
RequestsAt(c) ==
    LET programConfig == GetAccountInfo(getProgramConfigPda)
        account == GetAccountInfo(svc[calls[c].svc].multisigPda)
    IN CASE calls[c].op = "createMultiSig" -> {<<programConfig>>}
         [] calls[c].op = "sendTx" /\ calls[c].pc = "awaitBlockhash" ->
                {<<GetLatestBlockhash>>}
         [] calls[c].op = "sendTx" /\ calls[c].pc = "rejected" ->
                {<<GetLatestBlockhash>>, <<GetLatestBlockhash, account>>}
         [] calls[c].op = "sendTx"
                /\ calls[c].pc \in {"awaitMultisig", "returned"} ->
                {<<GetLatestBlockhash, account>>}

\* C8 (amended): createMultiSig makes one request, for the program config;
\* sendTx makes two, the latest blockhash and then one read of the multisig
\* account (none once the blockhash request has failed); no request is made
\* twice; a call whose request fails ends rejected, with no instruction and
\* no create key, and is not resumed.
C8_OneAccountReadNoRetry ==
    /\ [](\A c \in Sequential :
            Reading(c) =>
                /\ calls[c].requests \in RequestsAt(c)
                /\ calls[c].pc = "rejected" =>
                        calls[c].value = <<>> /\ calls[c].create_key = NoKey)
    /\ [][\A c \in Sequential :
            Reading(c) =>
                /\ calls[c].pc = "rejected" =>
                        calls'[c] \in {calls[c], FreeCall}
                /\ calls[c].pc \in Awaiting /\ calls'[c] # calls[c] =>
                        \/ calls'[c].pc \in {"returned", "rejected"}
                        \/ Len(calls'[c].requests) = Len(calls[c].requests) + 1
            ]_vars

\* C8 witness: a sendTx was rejected when its read of the multisig account
\* failed, after the blockhash had arrived.
C8_Witness ==
    \E c \in Sequential :
        /\ calls[c].op = "sendTx"
        /\ calls[c].pc = "rejected"
        /\ Len(calls[c].requests) = 2
        /\ AccountOf(calls[c].svc) # {}
        /\ calls[c].value = <<>>

\* C9: a step of createMultiSig, addSpendingLimit, sendTx or executeTx (a
\* call starting, resuming, returning or being rejected) leaves the whole
\* ledger as it is; the accounts change only in steps in which no call moves.
C9_BuildingLeavesLedger ==
    [][(calls' # calls \/ svc' # svc \/ usedKeys' # usedKeys)
            => ledger' = ledger]_vars

\* C9 witness: sendTx has returned its three instructions for the next
\* index and the ledger holds no vault transaction or proposal of that index.
C9_Witness ==
    \E c \in Sequential :
        /\ sendTxReturned(c)
        /\ Len(calls[c].value) = 3
        /\ \A m \in AccountOf(calls[c].svc) :
              /\ m.transactionIndex = calls[c].currentTransactionIndex
              /\ Indices(calls[c].value)
                    \cap UsedIndices(ledger, m.address) = {}

\* C10 as stated: no step changes a field of an instance.
C10_NoFieldChanges == [][svc' = svc]_vars

\* Call c returns from createMultiSig in this step.
createMultiSigReturns(c) ==
    /\ calls[c].op = "createMultiSig"
    /\ calls[c].pc = "awaitProgramConfig"
    /\ calls'[c].pc = "returned"

\* C10 (amended): the only field a call changes is configTreasury, which
\* each createMultiSig overwrites, when it resumes, with the treasury the
\* program config holds at that moment; the instruction it returns carries
\* that treasury, not one an earlier call stored; and the index sendTx
\* builds for is the account's index at the moment it returns, + 1.
C10_OnlyConfigTreasuryOverwritten ==
    [][/\ \A i \in DOMAIN svc :
            /\ svc'[i] = [svc[i] EXCEPT
                            !.configTreasury = svc'[i].configTreasury]
            /\ svc'[i].configTreasury # svc[i].configTreasury =>
                    \E c \in Sequential :
                        /\ createMultiSigReturns(c)
                        /\ calls[c].svc = i
       /\ \A c \in Sequential :
            /\ createMultiSigReturns(c) =>
                    /\ svc'[calls[c].svc].configTreasury = ledger.treasury
                    /\ calls'[c].value[1].treasury = ledger.treasury
            /\ sendTxReturns(c) =>
                    \A m \in AccountOf(calls[c].svc) :
                        Indices(calls'[c].value) = {m.transactionIndex + 1}
      ]_vars

\* C10 witness: an instance whose earlier createMultiSig stored a treasury
\* that the program config has since left is inside a new createMultiSig.
C10_Witness ==
    \E c \in Sequential :
        /\ calls[c].op = "createMultiSig"
        /\ calls[c].pc = "awaitProgramConfig"
        /\ svc[calls[c].svc].configTreasury \notin {Null, ledger.treasury}

\* Each proposal has the vault transaction of its index; an index has one
\* vault transaction and one proposal at most; and no index is beyond the
\* account's transaction index.
ValidLedger(L) ==
    /\ OnePerIndex(L)
    /\ \A p \in L.proposals :
            VaultTransactionsAt(L, p.multisig, p.transactionIndex) # {}
    /\ \A t \in L.vaultTransactions : MultisigAt(L, t.multisig) # {}
    /\ \A m \in L.multisigs :
            UsedIndices(L, m.address) \subseteq 1 .. m.transactionIndex

\* What the ledger L holds, the ledger M still holds: accounts with their
\* members and threshold, vault transactions, spending limits, and every
\* proposal with the approvals it had and not in an earlier state.
StaysOn(L, M) ==
    /\ NothingOverwritten(L, M)
    /\ L.spendingLimits \subseteq M.spendingLimits
    /\ \A m \in L.multisigs :
         \E n \in MultisigAt(M, m.address) :
            /\ n.members = m.members
            /\ n.threshold = m.threshold
            /\ n.transactionIndex >= m.transactionIndex
    /\ \A p \in L.proposals :
         \A q \in ProposalsAt(M, p.multisig, p.transactionIndex) :
            /\ p.status = "Executed" => q.status = "Executed"
            /\ p.status = "Approved" => q.status \in {"Approved", "Executed"}

\* The script has ended: by a throw, or after its last line.
Stopped == driver.pc \in {"crashed", "done"}

\* What the script's confirmed transactions put on the ledger.
ConfirmedOnLedger ==
    /\ Len(driver.confirmed) >= 1 =>
            /\ AccountOf(Script) # {}
            /\ \E s \in ledger.spendingLimits :
                    s.multisig = svc[Script].multisigPda
    /\ Len(driver.confirmed) >= 2 =>
            /\ VaultTransactionsAt(ledger, svc[Script].multisigPda,
                                   ExecuteTransactionIndex) # {}
            /\ \E p \in DriverProposals :
                    p.status \in {"Approved", "Executed"}

\* C11: in the script, wherever it stops: what its confirmed transactions
\* created is on the ledger; no step takes anything off the ledger or moves a
\* proposal back; the ledger is valid in every state; a stopped script takes
\* no further step (nothing is rolled back, nothing is resumed); and a call
\* that is rejected ends the script, it is not made again.
C11_PartialWorkflowStays ==
    /\ [](ValidLedger(ledger))
    /\ [](ConfirmedOnLedger)
    /\ [][/\ StaysOn(ledger, ledger')
          /\ ~Stopped
          /\ calls[Script].pc = "rejected" /\ calls'[Script] # calls[Script]
                => driver'.pc = "crashed"]_vars

\* C11 witness: the script stopped after the creation was confirmed and
\* before any proposal: the account and its spending limit are there, the
\* proposal and the execution are missing.
C11_Witness ==
    /\ driver.pc = "crashed"
    /\ driver.confirmed = <<"L43">>
    /\ AccountOf(Script) # {}
    /\ ledger.spendingLimits # {}
    /\ ledger.proposals = {}

\* The lines at which the script itself awaits a request to the ledger.
RequestLines == {"L35", "L39", "L43", "L51", "L65", "L75", "L79", "L85", "L92"}

\* The requests to the ledger that are awaiting their answer.
InFlight ==
    Cardinality({c \in Calls : calls[c].pc \in Awaiting})
        + (IF driver.pc \in RequestLines THEN 1 ELSE 0)

\* C12: in the script, sendTx is called, and its bundle sent, only when the
\* creation transaction has been confirmed (and the account is on the
\* ledger); executeTx is called, and its instruction sent, only when the
\* proposal transaction has been confirmed too (and the proposal is on the
\* ledger); at most one request to the ledger awaits its answer at any time,
\* and while the script awaits a request of its own no call is open.
C12_StrictlySequential ==
    /\ calls[Script].op = "sendTx" \/ driver.pc \in {"L61", "L65", "L75"} =>
            /\ driver.confirmed = <<"L43">>
            /\ AccountOf(Script) # {}
    /\ calls[Script].op = "executeTx" \/ driver.pc \in {"L81", "L85", "L92"} =>
            /\ driver.confirmed = <<"L43", "L79">>
            /\ DriverProposals # {}
    /\ InFlight <= 1
    /\ driver.pc \in RequestLines => \A c \in Calls : calls[c] = FreeCall
    /\ \A c \in Calls \ {Script} : calls[c] = FreeCall

\* C12 witness: executeTx is awaiting its read of the ledger, after both
\* earlier transactions were confirmed.
C12_Witness ==
    /\ calls[Script].op = "executeTx"
    /\ calls[Script].pc \in Awaiting
    /\ driver.confirmed = <<"L43", "L79">>
    /\ InFlight = 1

\* C13: what executeTx returns is the execute instruction of transaction
\* index 1 of its instance's account, whatever the account's transaction
\* index is; and the index a sendTx builds for is the one executeTx names
\* exactly when the index that sendTx read was 0.
C13_ExecuteIndexIsOne ==
    /\ [](\A c \in Sequential :
            executeTxReturned(c) =>
                /\ Kinds(calls[c].value) = <<"vaultTransactionExecute">>
                /\ calls[c].value[1].multisigPda
                        = svc[calls[c].svc].multisigPda
                /\ calls[c].value[1].transactionIndex = 1)
    /\ [][\A c \in Sequential :
            sendTxReturns(c) =>
                (Indices(calls'[c].value)
                        = Indices(executeTxIxs(svc[calls[c].svc]))
                    <=> calls'[c].currentTransactionIndex = 0)]_vars

\* C13 witness: executeTx has returned the instruction for index 1 while
\* the account's transaction index is 2 and the second proposal, approved,
\* is not yet executed.
C13_Witness ==
    \E c \in Sequential :
        /\ executeTxReturned(c)
        /\ calls[c].value[1].transactionIndex = 1
        /\ \E m \in AccountOf(calls[c].svc) :
              /\ m.transactionIndex = 2
              /\ \E p \in ProposalsAt(ledger, m.address, 2) :
                    p.status = "Approved"

(* ------------------ ImageDescriptionService.requestOpenAI -------------- *)
(* One call of requestOpenAI.  Its awaits are the fetch and response.json; *)
(* what is between two awaits (the catch, the loop's increment and test,   *)
(* the building of the next body) runs in one step.                        *)

\* for (let retryAttempts = 0; retryAttempts < 3; retryAttempts++)
MaxAttempts == 3
\* if (retryAttempts === 2) throw error
LastRetryAttempt == 2
GifMaxTokens == 500
UrlMaxTokens == 300

ImageUrls == {"https://t.me/a.png", "https://t.me/b.gif"}
ImageData == {"bytes"}
\* What a fetch can end in without a usable response, and what
\* response.json() or data.choices[0].message.content can throw.
FetchErrors == {"TypeError: fetch failed"}
HttpStatuses == {429, 500}
JsonErrors == {"SyntaxError: Unexpected token",
               "TypeError: Cannot read properties of undefined"}
Contents == {"title\ndescription", "title"}
AfterLoopError == "Failed to recognize image with OpenAI after 3 attempts"

HttpError(status) == <<"HTTP error! status: ", status>>

\* The body of one request.
OpenAIBody(imageUrl, imageData, isGif) ==
    [model |-> "gpt-4o-mini",
     url |-> IF isGif THEN <<"data:image/png;base64,", imageData>>
             ELSE <<imageUrl>>,
     max_tokens |-> IF isGif THEN GifMaxTokens ELSE UrlMaxTokens]

\* The top of the loop: its test, and the next fetch or the throw after it.
loopTest(st) ==
    IF st.retryAttempts < MaxAttempts
    THEN [st EXCEPT
            !.pc = "awaitFetch",
            !.requests =
                Append(@, OpenAIBody(st.imageUrl, st.imageData, st.isGif))]
    ELSE [st EXCEPT !.pc = "thrown", !.error = AfterLoopError]

\* A catch block that logs and never rethrows.
catchError_swallowing(st, error) ==
    loopTest([st EXCEPT
                !.log = Append(@, <<st.retryAttempts + 1, error>>),
                !.retryAttempts = @ + 1])

\* catch (error): log it, rethrow on the last attempt, otherwise go round.
catchError(st, error) ==
    LET logged ==
            [st EXCEPT !.log = Append(@, <<st.retryAttempts + 1, error>>)]
    IN IF st.retryAttempts = LastRetryAttempt
       THEN [logged EXCEPT !.pc = "thrown", !.error = error]
       ELSE loopTest([logged EXCEPT !.retryAttempts = @ + 1])

NoError == "none"
NoContent == "none"

\* requestOpenAI(imageUrl, imageData, prompt, isGif), up to its first fetch.
requestOpenAICall(imageUrl, imageData, isGif) ==
    loopTest([pc |-> "loop", imageUrl |-> imageUrl, imageData |-> imageData,
              isGif |-> isGif, retryAttempts |-> 0, requests |-> <<>>,
              log |-> <<>>, error |-> NoError, content |-> NoContent])

InitOpenAI ==
    /\ ledger = EmptyLedger(FirstTreasury)
    /\ svc = <<>>
    /\ calls = [c \in Calls |-> FreeCall]
    /\ usedKeys = {}
    /\ driver = DriverOff
    /\ provider = Off
    /\ imageService = Off
    /\ telegram = Off
    /\ \E imageUrl \in ImageUrls, imageData \in ImageData, isGif \in BOOLEAN :
            openai = requestOpenAICall(imageUrl, imageData, isGif)

\* await fetch(...) rejects.
fetchRejects ==
    /\ openai.pc = "awaitFetch"
    /\ \E error \in FetchErrors : openai' = catchError(openai, error)
    /\ UNCHANGED <<multisigVars, provider, imageService, telegram>>

\* await fetch(...) answers with a status that is not ok.
fetchNotOk ==
    /\ openai.pc = "awaitFetch"
    /\ \E status \in HttpStatuses :
            openai' = catchError(openai, HttpError(status))
    /\ UNCHANGED <<multisigVars, provider, imageService, telegram>>

\* await fetch(...) answers ok: response.json() is awaited.
fetchOk ==
    /\ openai.pc = "awaitFetch"
    /\ openai' = [openai EXCEPT !.pc = "awaitJson"]
    /\ UNCHANGED <<multisigVars, provider, imageService, telegram>>

\* response.json() rejects, or the data has no choices[0].message.
jsonThrows ==
    /\ openai.pc = "awaitJson"
    /\ \E error \in JsonErrors : openai' = catchError(openai, error)
    /\ UNCHANGED <<multisigVars, provider, imageService, telegram>>

\* return data.choices[0].message.content
jsonReturns ==
    /\ openai.pc = "awaitJson"
    /\ \E content \in Contents :
            openai' = [openai EXCEPT !.pc = "returned", !.content = content]
    /\ UNCHANGED <<multisigVars, provider, imageService, telegram>>

NextOpenAI ==
    \/ fetchRejects
    \/ fetchNotOk
    \/ fetchOk
    \/ jsonThrows
    \/ jsonReturns

\* Every request that was sent is answered or fails: an awaited fetch or
\* response.json() settles.
SpecOpenAI == InitOpenAI /\ [][NextOpenAI]_vars /\ WF_vars(NextOpenAI)

\* requestOpenAI has ended.
OpenAIEnded == openai.pc \in {"returned", "thrown"}

\* C14: requestOpenAI sends at most 3 requests, one per attempt, each after
\* the attempt before it failed; it returns the content of an attempt that
\* succeeded and sends nothing after it; it throws only when the third
\* attempt has failed, and then that attempt's error, never the error of the
\* throw after the loop; and it always ends.
C14_AtMostThreeAttempts ==
    /\ [](/\ Len(openai.requests) <= 3
          /\ Len(openai.requests) = Len(openai.log)
                + (IF openai.pc = "thrown" THEN 0 ELSE 1)
          /\ openai.pc \notin {"returned", "thrown"} =>
                Len(openai.requests) = openai.retryAttempts + 1
          /\ openai.pc = "returned" =>
                /\ openai.content \in Contents
                /\ openai.error = NoError
          /\ openai.pc = "thrown" =>
                /\ Len(openai.requests) = 3
                /\ Len(openai.log) = 3
                /\ openai.error = openai.log[3][2]
                /\ openai.error # AfterLoopError
                /\ openai.content = NoContent)
    /\ [][/\ OpenAIEnded => openai' = openai
          /\ Len(openai'.requests) > Len(openai.requests) =>
                /\ Len(openai'.log) = Len(openai.log) + 1
                /\ Len(openai.log) < 2
                /\ Len(openai'.requests) = Len(openai.requests) + 1]_vars
    /\ <>OpenAIEnded

\* C14 witness: two attempts failed and the third returned its content.
C14_Witness ==
    /\ openai.pc = "returned"
    /\ Len(openai.requests) = 3
    /\ Len(openai.log) = 2

(* --------------------- TokenProvider.fetchHolderList ------------------- *)
(* One TokenProvider: its cache entry for holderList_<token_address> and   *)
(* one fetchHolderList call at a time.  The call's only await is the post; *)
(* what is between two posts runs in one step.                             *)

\* if (page > 100) break
PageLimit == 100
\* Pages with accounts the server serves per call where page contents vary.
MaxPages == 2

\* A JavaScript number that holds an integer n is kept as <<hi, lo>> with
\* n = hi * Base + lo: the integers of the model run past 2^53.
Base == 134217728
Num(n) == <<0, n>>
Two53 == <<Base \div 2, 0>>

Norm(hi, lo) == <<hi + lo \div Base, lo % Base>>

\* The sum of two integers, exactly.
ExactAdd(a, b) == Norm(a[1] + b[1], a[2] + b[2])

\* The distance between neighbouring doubles at v (v < 2^56).
Ulp(v) ==
    IF v[1] < Base \div 2 THEN 1
    ELSE IF v[1] < Base THEN 2
    ELSE IF v[1] < 2 * Base THEN 4
    ELSE 8

\* The double nearest to the integer v, ties to the even mantissa.
RoundF64(v) ==
    LET q == Ulp(v)
        r == v[2] % q
        down == v[2] - r
        up == 2 * r > q \/ (2 * r = q /\ (down \div q) % 2 = 1)
    IN IF r = 0 THEN v
       ELSE IF up THEN Norm(v[1], down + q)
       ELSE <<v[1], down>>

\* a + b on numbers.
F64Add(a, b) == RoundF64(ExactAdd(a, b))

\* parseFloat(account.amount): the amount is a number of the response, or a
\* string holding a numeral, read as the nearest double.
parseFloat(amount) == RoundF64(amount[2])

\* balance.toString(): the decimal numeral of the number (below 1e21).
NumberToString(v) == <<"numeral", v>>

Owners == {"ownerA", "ownerB"}
Amounts == {<<"number", Num(1)>>, <<"number", Two53>>, <<"string", Num(2)>>}
TokenAccounts == [owner : Owners, amount : Amounts]
\* token_accounts of a response, where the contents vary.
Pages ==
    {<<x>> : x \in TokenAccounts}
        \cup {<<x, y>> : x \in TokenAccounts, y \in TokenAccounts}
\* token_accounts of a response of a server that never runs out of pages.
FillerPages == {<<[owner |-> "ownerA", amount |-> <<"number", Num(1)>>]>>}

Undefined == "undefined"
Cursors == {Undefined, "cursor1", "cursor2"}
\* !data, !data.result, !data.result.token_accounts, length === 0
EmptyResponses == {"noData", "noResult", "noTokenAccounts", "empty"}
NoResponse == [kind |-> "none", cursor |-> Undefined]
\* The cache entry and a call's result hold a list, <<list>>, or nothing.
NoCache == <<>>
NoResult == <<>>
HeliusError == "Failed to fetch holder list from Helius."

\* allHoldersMap after one account (a Map keeps its keys in insertion order).
addAccount(map, account) ==
    LET balance == parseFloat(account.amount)
    IN IF \E n \in 1 .. Len(map) : map[n][1] = account.owner
       THEN [n \in 1 .. Len(map) |->
                IF map[n][1] = account.owner
                THEN <<map[n][1], F64Add(map[n][2], balance)>>
                ELSE map[n]]
       ELSE Append(map, <<account.owner, balance>>)

\* token_accounts.forEach(...)
RECURSIVE addAccounts(_, _)
addAccounts(map, accounts) ==
    IF accounts = <<>> THEN map
    ELSE addAccounts(addAccount(map, Head(accounts)), Tail(accounts))

\* Array.from(allHoldersMap.entries()).map(...)
holdersOf(map) ==
    [n \in 1 .. Len(map) |->
        [address |-> map[n][1], balance |-> NumberToString(map[n][2])]]

\* After the loop: the list is built, cached and returned.
afterLoop(st) ==
    [st EXCEPT
        !.pc = "returned",
        !.cache = <<holdersOf(st.allHoldersMap)>>,
        !.result = <<holdersOf(st.allHoldersMap)>>]

\* A loop that pages on without a limit.
loopTop_noLimit(st) ==
    [st EXCEPT !.pc = "awaitPost", !.sent = st.cursor, !.count = @ + 1]

\* The top of the loop: the page limit, then the next post.
loopTop(st) ==
    IF st.page > PageLimit
    THEN afterLoop(st)
    ELSE [st EXCEPT !.pc = "awaitPost", !.sent = st.cursor, !.count = @ + 1]

ProviderStart ==
    [cache |-> NoCache, pc |-> "idle", fromCache |-> FALSE, page |-> 1,
     cursor |-> Undefined, sent |-> Undefined, count |-> 0,
     response |-> NoResponse, allHoldersMap |-> <<>>, pages |-> <<>>,
     result |-> NoResult, error |-> NoError]

InitProvider ==
    /\ ledger = EmptyLedger(FirstTreasury)
    /\ svc = <<>>
    /\ calls = [c \in Calls |-> FreeCall]
    /\ usedKeys = {}
    /\ driver = DriverOff
    /\ openai = Off
    /\ imageService = Off
    /\ telegram = Off
    /\ provider = ProviderStart

\* fetchHolderList(), to the cached list or to its first post.
fetchHolderListCall ==
    /\ provider.pc \in {"idle", "returned", "thrown"}
    /\ LET fresh == [ProviderStart EXCEPT !.cache = provider.cache]
       IN provider' =
            IF provider.cache # NoCache
            THEN [fresh EXCEPT
                    !.pc = "returned",
                    !.fromCache = TRUE,
                    !.result = provider.cache]
            ELSE loopTop(fresh)
    /\ UNCHANGED <<multisigVars, openai, imageService, telegram>>

\* A failed call that keeps what it has: it caches and returns the holders
\* of the pages it got.
postFails_partial ==
    /\ provider.pc = "awaitPost"
    /\ provider' = afterLoop([provider EXCEPT
                                !.response = [kind |-> "error",
                                              cursor |-> Undefined]])
    /\ UNCHANGED <<multisigVars, openai, imageService, telegram>>

\* axios.post rejects: the catch throws the fixed error.
postFails ==
    /\ provider.pc = "awaitPost"
    /\ provider' = [provider EXCEPT
                        !.pc = "thrown",
                        !.response = [kind |-> "error", cursor |-> Undefined],
                        !.error = HeliusError]
    /\ UNCHANGED <<multisigVars, openai, imageService, telegram>>

\* The response has no token accounts: break.
postEmpty(kind) ==
    /\ provider.pc = "awaitPost"
    /\ provider' = afterLoop([provider EXCEPT
                                !.response = [kind |-> kind,
                                              cursor |-> Undefined]])
    /\ UNCHANGED <<multisigVars, openai, imageService, telegram>>

\* The response has token accounts: they are added, the cursor is kept and
\* the loop goes round.
postAccounts(accounts, cursor) ==
    /\ provider.pc = "awaitPost"
    /\ provider' =
        loopTop([provider EXCEPT
                    !.response = [kind |-> "accounts", cursor |-> cursor],
                    !.pages = Append(@, accounts),
                    !.allHoldersMap = addAccounts(@, accounts),
                    !.cursor = cursor,
                    !.page = @ + 1])
    /\ UNCHANGED <<multisigVars, openai, imageService, telegram>>

\* The cache entry's time to live runs out.
cacheExpires ==
    /\ provider.cache # NoCache
    /\ provider' = [provider EXCEPT !.cache = NoCache]
    /\ UNCHANGED <<multisigVars, openai, imageService, telegram>>

\* The awaited post settles.
postSettles ==
    \/ postFails
    \/ \E kind \in EmptyResponses : postEmpty(kind)
    \/ \E accounts \in FillerPages, cursor \in Cursors :
            postAccounts(accounts, cursor)

\* A server that has a page for every request.
NextPaging ==
    \/ fetchHolderListCall
    \/ postFails
    \/ \E kind \in EmptyResponses : postEmpty(kind)
    \/ \E accounts \in FillerPages, cursor \in Cursors :
            postAccounts(accounts, cursor)
    \/ cacheExpires

SpecPaging == InitProvider /\ [][NextPaging]_vars /\ WF_vars(postSettles)

\* A server with at most MaxPages pages of any contents.
NextHolders ==
    \/ fetchHolderListCall
    \/ postFails
    \/ \E kind \in EmptyResponses : postEmpty(kind)
    \/ \E accounts \in Pages, cursor \in Cursors :
            provider.page <= MaxPages /\ postAccounts(accounts, cursor)
    \/ cacheExpires

SpecHolders == InitProvider /\ [][NextHolders]_vars

\* The fetchHolderList call has ended.
FetchEnded == provider.pc \in {"returned", "thrown"}

\* C15: fetchHolderList sends at most 100 posts per call; the first carries
\* no cursor and every later one the cursor of the response before it, which
\* had token accounts; a response with no token accounts (no data, no
\* result, no list, an empty list) ends the loop at once; a call that
\* returns without such a response has sent exactly 100 posts; and every
\* call that awaits a post ends.
C15_PagingTerminates ==
    /\ [](/\ provider.count <= 100
          /\ provider.pc = "awaitPost" =>
                /\ provider.count = provider.page
                /\ Len(provider.pages) = provider.count - 1
                /\ provider.count = 1 =>
                        /\ provider.sent = Undefined
                        /\ provider.response = NoResponse
                /\ provider.count > 1 =>
                        /\ provider.response.kind = "accounts"
                        /\ provider.sent = provider.response.cursor
          /\ provider.pc = "returned" /\ ~provider.fromCache =>
                \/ provider.response.kind \in EmptyResponses
                \/ /\ provider.response.kind = "accounts"
                   /\ provider.count = 100)
    /\ [][provider.pc = "awaitPost"
            /\ provider'.response.kind \in EmptyResponses
          => /\ provider'.pc = "returned"
             /\ provider'.count = provider.count]_vars
    /\ (provider.pc = "awaitPost") ~> FetchEnded

\* C15 witness: the server had accounts on every page, with cursors the
\* other way round and none at the end, and the call returned after its
\* 100th post.
C15_Witness ==
    /\ provider.pc = "returned"
    /\ ~provider.fromCache
    /\ provider.count = 100
    /\ Len(provider.pages) = 100
    /\ provider.response = [kind |-> "accounts", cursor |-> Undefined]

\* A call of fetchHolderList starts in this step.
fetchHolderListCalled ==
    /\ provider.pc \in {"idle", "returned", "thrown"}
    /\ provider'.cache = provider.cache
    /\ provider'.pc # "idle"

\* C16: a call that finds a cached list returns that list and sends no
\* post; a call whose post fails throws 'Failed to fetch holder list from
\* Helius.', returns nothing and leaves the cache as it is; and the cache is
\* written only by a call that returns after its last response, with the
\* list that call returns.
C16_CacheOnlyCompleteFetch ==
    /\ [](/\ provider.pc = "returned" /\ provider.fromCache =>
                /\ provider.count = 0
                /\ provider.pages = <<>>
                /\ provider.result # NoResult
          /\ provider.pc = "thrown" =>
                /\ provider.error = HeliusError
                /\ provider.result = NoResult
                /\ provider.response.kind = "error"
                /\ provider.cache = NoCache
          /\ provider.cache # NoCache /\ provider.pc = "awaitPost" => FALSE)
    /\ [][/\ fetchHolderListCalled /\ provider.cache # NoCache =>
                /\ provider'.pc = "returned"
                /\ provider'.result = provider.cache
                /\ provider'.count = 0
          /\ provider.pc = "awaitPost" /\ provider'.response.kind = "error" =>
                /\ provider'.pc = "thrown"
                /\ provider'.cache = provider.cache
          /\ provider'.cache # provider.cache =>
                \/ provider'.cache = NoCache
                \/ /\ provider.pc = "awaitPost"
                   /\ provider'.pc = "returned"
                   /\ provider'.response.kind # "error"
                   /\ provider'.cache = provider'.result]_vars

\* C16 witness: the second post of a call failed after a first page with
\* accounts: the call threw and nothing is cached.
C16_Witness ==
    /\ provider.pc = "thrown"
    /\ Len(provider.pages) = 1
    /\ provider.allHoldersMap # <<>>
    /\ provider.cache = NoCache

\* The token accounts of the pages, in the order they came.
RECURSIVE Flatten(_)
Flatten(pages) ==
    IF pages = <<>> THEN <<>> ELSE Head(pages) \o Flatten(Tail(pages))

\* The sum of the amounts of owner's accounts, as an integer.
RECURSIVE AmountSum(_, _)
AmountSum(owner, accounts) ==
    IF accounts = <<>> THEN Num(0)
    ELSE IF Head(accounts).owner = owner
    THEN ExactAdd(Head(accounts).amount[2], AmountSum(owner, Tail(accounts)))
    ELSE AmountSum(owner, Tail(accounts))

OwnersSeen(accounts) == {accounts[n].owner : n \in 1 .. Len(accounts)}

\* The list has one entry per owner of the pages, no owner twice.
OneEntryPerOwner(list, accounts) ==
    /\ {list[n].address : n \in 1 .. Len(list)} = OwnersSeen(accounts)
    /\ Len(list) = Cardinality(OwnersSeen(accounts))

\* C17 as stated: the list a fetch returns has one entry per owner seen on
\* its pages, and the entry's balance is the sum of the amounts of that
\* owner's accounts on those pages.
C17_BalanceIsSumOfAmounts ==
    provider.pc = "returned" /\ ~provider.fromCache =>
        LET list == provider.result[1]
            accounts == Flatten(provider.pages)
        IN /\ OneEntryPerOwner(list, accounts)
           /\ \A n \in 1 .. Len(list) :
                list[n].balance =
                    NumberToString(AmountSum(list[n].address, accounts))

(* ------------------ ImageDescriptionService.getInstance ---------------- *)
(* The static field `instance`, the instances ever constructed (heap[id]   *)
(* holds the fields of instance id) and the MessageManagers constructed,   *)
(* each with the key it was given and the instance it got.                 *)

\* MessageManagers constructed in one process.
MaxManagers == 4

\* private static instance: ImageDescriptionService | null = null
NullRef == 0
ApiKeys == {"sk-first", "sk-second", ""}

SingletonStart == [instance |-> NullRef, heap |-> <<>>, managers |-> <<>>]

\* new ImageDescriptionService(apiKey): a new object with its key.
newImageDescriptionService(st, apiKey) ==
    [st EXCEPT !.heap = Append(@, [apiKey |-> apiKey])]

\* A getInstance that makes a new instance for a key it has not seen.
getInstance_perKey(st, apiKey) ==
    IF st.instance = NullRef \/ st.heap[st.instance].apiKey # apiKey
    THEN [newImageDescriptionService(st, apiKey) EXCEPT
            !.instance = Len(st.heap) + 1]
    ELSE st

\* ImageDescriptionService.getInstance(apiKey): the state after the call;
\* the call returns its field `instance`.
getInstance(st, apiKey) ==
    IF st.instance = NullRef
    THEN [newImageDescriptionService(st, apiKey) EXCEPT
            !.instance = Len(st.heap) + 1]
    ELSE st

\* The Authorization header describeImage sends for an instance.
Authorization(st, ref) == <<"Bearer ", st.heap[ref].apiKey>>

InitSingleton ==
    /\ ledger = EmptyLedger(FirstTreasury)
    /\ svc = <<>>
    /\ calls = [c \in Calls |-> FreeCall]
    /\ usedKeys = {}
    /\ driver = DriverOff
    /\ openai = Off
    /\ provider = Off
    /\ telegram = Off
    /\ imageService = SingletonStart

\* new MessageManager(bot, openAiKey)
MessageManagerConstructor(openAiKey) ==
    /\ Len(imageService.managers) < MaxManagers
    /\ LET st == getInstance(imageService, openAiKey)
       IN imageService' =
            [st EXCEPT !.managers =
                Append(@, [openAiKey |-> openAiKey,
                           imageService |-> st.instance])]
    /\ UNCHANGED <<multisigVars, openai, provider, telegram>>

NextSingleton == \E openAiKey \in ApiKeys : MessageManagerConstructor(openAiKey)

SpecSingleton == InitSingleton /\ [][NextSingleton]_vars

\* C18: however many times getInstance is called and with whatever keys,
\* one instance is ever constructed, by the first call; every call returns
\* it; and the key it sends is the key of the first call.
C18_OneInstanceFirstKey ==
    LET managers == imageService.managers
    IN managers # <<>> =>
        /\ Len(imageService.heap) = 1
        /\ imageService.instance = 1
        /\ \A n \in 1 .. Len(managers) :
              /\ managers[n].imageService = managers[1].imageService
              /\ managers[n].imageService = imageService.instance
              /\ Authorization(imageService, managers[n].imageService)
                    = <<"Bearer ", managers[1].openAiKey>>

\* C18 witness: a second MessageManager was constructed with another key
\* than the first.
C18_Witness ==
    /\ Len(imageService.managers) >= 2
    /\ imageService.managers[2].openAiKey
            # imageService.managers[1].openAiKey

(* ------------- TelegramClient handler, MessageManager.handleMessage ---- *)
(* One update in the "message" handler.  telegram.pc is the await the      *)
(* handler is at; what is between two awaits runs in one step.  A text is  *)
(* kept as the sequence of the parts a template string joins.              *)

Absent == "absent"
\* ctx.message: a text, a photo, an image sent as a document, another
\* document, or a message with none of these (a sticker); captions optional.
Messages ==
    {[kind |-> "text", text |-> "hello", caption |-> Absent, mime |-> Absent]}
    \cup [kind : {"photo"}, text : {Absent}, caption : {Absent, "look"},
          mime : {Absent}]
    \cup [kind : {"document"}, text : {Absent}, caption : {Absent, "file"},
          mime : {"image/png", "application/pdf"}]
    \cup {[kind |-> "sticker", text |-> Absent, caption |-> Absent,
           mime |-> Absent]}
NoMessage == [kind |-> Absent, text |-> Absent, caption |-> Absent,
              mime |-> Absent]

Titles == {"title"}
Descriptions == {"description", ""}
NoImage == <<>>

SorryReply == <<"Sorry, I encountered an error while processing your message.">>
HandlerReply == <<"An error occurred while processing your message.">>
CatchReply == <<"An unexpected error occurred. Please try again later.">>

\* The synchronous steps of handleMessage after processImage that can throw.
ThrowingSteps == {"log_to_file", "cache.set"}
NoThrow == "none"

\* ctx.reply(text) is called by `by`; the handler then awaits it at pc.
reply(st, by, text, pc) ==
    [st EXCEPT !.replies = Append(@, [by |-> by, text |-> text]), !.pc = pc]

\* handleMessage's catch: the fixed reply.
handleMessageCatch(st, step) ==
    reply([st EXCEPT !.threw = Append(@, step)],
          "handleMessage", SorryReply, "awaitErrorReply")

\* "photo" in message && message.photo?.length > 0, or an image document.
hasImage(message) ==
    \/ message.kind = "photo"
    \/ message.kind = "document" /\ message.mime = "image/png"

\* let messageText = ""; message.text, or else the caption if there is one.
messageTextOf(message) ==
    IF message.kind = "text" THEN message.text
    ELSE IF message.caption # Absent THEN message.caption
    ELSE ""

\* handleMessage from the return of processImage to its next await.
afterProcessImage(st, imageInfo, throwsAt) ==
    LET messageText == messageTextOf(st.message)
        fullText == IF imageInfo # NoImage
                    THEN <<messageText, " ">> \o imageInfo
                    ELSE <<messageText>>
        got == [st EXCEPT !.imageInfo = imageInfo, !.fullText = fullText]
    IN IF fullText = <<"">> THEN [got EXCEPT !.pc = "done"]
       ELSE IF throwsAt \in ThrowingSteps THEN handleMessageCatch(got, throwsAt)
       ELSE reply(got, "handleMessage", fullText, "awaitReply")

\* A processImage that lets the error through to handleMessage.
processImageCatch_rethrow(st, throwsAt) ==
    handleMessageCatch([st EXCEPT !.imageError = TRUE], "processImage")

\* processImage's catch: the error is logged and null is returned.
processImageCatch(st, throwsAt) ==
    afterProcessImage([st EXCEPT !.imageError = TRUE], NoImage, throwsAt)

TelegramStart(message, from) ==
    [pc |-> "handler", message |-> message, from |-> from,
     imageInfo |-> NoImage, imageError |-> FALSE, fullText |-> <<>>,
     threw |-> <<>>, replies |-> <<>>]

InitTelegram ==
    /\ ledger = EmptyLedger(FirstTreasury)
    /\ svc = <<>>
    /\ calls = [c \in Calls |-> FreeCall]
    /\ usedKeys = {}
    /\ driver = DriverOff
    /\ openai = Off
    /\ provider = Off
    /\ imageService = Off
    /\ \E message \in Messages \cup {NoMessage}, from \in BOOLEAN :
            telegram = TelegramStart(message, from)

\* bot.on("message"): handleMessage(ctx) up to its first await.
handleMessageCall(throwsAt) ==
    /\ telegram.pc = "handler"
    /\ telegram' =
        IF telegram.message = NoMessage \/ ~telegram.from
        THEN [telegram EXCEPT !.pc = "done"]
        ELSE IF hasImage(telegram.message)
        THEN [telegram EXCEPT !.pc = "awaitFileLink"]
        ELSE afterProcessImage(telegram, NoImage, throwsAt)
    /\ UNCHANGED <<multisigVars, openai, provider, imageService>>

\* await this.bot.telegram.getFileLink(...) settles.
getFileLinkSettles(ok, throwsAt) ==
    /\ telegram.pc = "awaitFileLink"
    /\ telegram' =
        IF ok THEN [telegram EXCEPT !.pc = "awaitDescribe"]
        ELSE processImageCatch(telegram, throwsAt)
    /\ UNCHANGED <<multisigVars, openai, provider, imageService>>

\* await this.imageService.describeImage(imageUrl) throws.
describeImageThrows(throwsAt) ==
    /\ telegram.pc = "awaitDescribe"
    /\ telegram' = processImageCatch(telegram, throwsAt)
    /\ UNCHANGED <<multisigVars, openai, provider, imageService>>

\* await this.imageService.describeImage(imageUrl) returns.
describeImageReturns(title, description, throwsAt) ==
    /\ telegram.pc = "awaitDescribe"
    /\ telegram' =
        afterProcessImage(telegram,
                          <<"[Image: ", title, "\n", description, "]">>,
                          throwsAt)
    /\ UNCHANGED <<multisigVars, openai, provider, imageService>>

\* await ctx.reply(fullText) settles.
replySettles(ok) ==
    /\ telegram.pc = "awaitReply"
    /\ telegram' =
        IF ok THEN [telegram EXCEPT !.pc = "done"]
        ELSE handleMessageCatch(telegram, "ctx.reply")
    /\ UNCHANGED <<multisigVars, openai, provider, imageService>>

\* The reply in handleMessage's catch settles; when it rejects handleMessage
\* rejects, and the handler's own catch replies.
errorReplySettles(ok) ==
    /\ telegram.pc = "awaitErrorReply"
    /\ telegram' =
        IF ok THEN [telegram EXCEPT !.pc = "done"]
        ELSE reply([telegram EXCEPT !.threw = Append(@, "errorReply")],
                   "setupHandlers", HandlerReply, "awaitHandlerReply")
    /\ UNCHANGED <<multisigVars, openai, provider, imageService>>

\* The reply in the handler's catch settles; when it rejects bot.catch
\* replies, without awaiting.
handlerReplySettles(ok) ==
    /\ telegram.pc = "awaitHandlerReply"
    /\ telegram' =
        IF ok THEN [telegram EXCEPT !.pc = "done"]
        ELSE reply([telegram EXCEPT !.threw = Append(@, "handlerReply")],
                   "bot.catch", CatchReply, "done")
    /\ UNCHANGED <<multisigVars, openai, provider, imageService>>

ThrowsAt == ThrowingSteps \cup {NoThrow}

NextTelegram ==
    \/ \E throwsAt \in ThrowsAt : handleMessageCall(throwsAt)
    \/ \E ok \in BOOLEAN, throwsAt \in ThrowsAt :
            getFileLinkSettles(ok, throwsAt)
    \/ \E throwsAt \in ThrowsAt : describeImageThrows(throwsAt)
    \/ \E title \in Titles, description \in Descriptions,
          throwsAt \in ThrowsAt :
            describeImageReturns(title, description, throwsAt)
    \/ \E ok \in BOOLEAN : replySettles(ok)
    \/ \E ok \in BOOLEAN : errorReplySettles(ok)
    \/ \E ok \in BOOLEAN : handlerReplySettles(ok)

SpecTelegram == InitTelegram /\ [][NextTelegram]_vars

\* The texts handleMessage has passed to ctx.reply.
RepliesOf(by) ==
    SelectSeq(telegram.replies, LAMBDA r : r.by = by)

HandleMessageReplies ==
    [n \in 1 .. Len(RepliesOf("handleMessage")) |->
        RepliesOf("handleMessage")[n].text]

\* handleMessage is past processImage (or has returned before it).
PastProcessImage ==
    telegram.pc \notin {"handler", "awaitFileLink", "awaitDescribe"}

\* C19: an error inside processImage is caught there: the message gets no
\* description, and when its text or caption is not empty handleMessage
\* goes on to reply with it.  Once handleMessage is past processImage: it has
\* called ctx.reply not at all when the combined text is empty (or there is
\* no message or sender); with the combined text, once and first, whenever
\* the text is not empty and neither log_to_file nor cache.set threw; and
\* with the fixed error text only after log_to_file, cache.set or that reply
\* threw, and then once.
C19_ImageFailureKeepsReply ==
    PastProcessImage =>
        LET sent == HandleMessageReplies
            text == messageTextOf(telegram.message)
            thrown == {telegram.threw[n] : n \in 1 .. Len(telegram.threw)}
        IN /\ "processImage" \notin thrown
           /\ telegram.imageError =>
                /\ telegram.imageInfo = NoImage
                /\ telegram.fullText = <<text>>
                /\ text # "" /\ thrown \cap ThrowingSteps = {} =>
                        sent # <<>> /\ sent[1] = <<text>>
           /\ telegram.message = NoMessage \/ ~telegram.from
                \/ telegram.fullText = <<"">> =>
                    telegram.replies = <<>>
           /\ thrown = {} /\ telegram.fullText \notin {<<>>, <<"">>} =>
                    sent = <<telegram.fullText>>
           /\ \A n \in 1 .. Len(sent) :
                sent[n] = SorryReply =>
                    /\ n = Len(sent)
                    /\ thrown \cap (ThrowingSteps \cup {"ctx.reply"}) # {}
           /\ Len(sent) <= 2
           /\ Len(sent) = 2 => sent[1] = telegram.fullText
                                /\ sent[2] = SorryReply

\* C19 witness: describing the photo failed and the caption was sent as
\* the only reply.
C19_Witness ==
    /\ telegram.pc = "done"
    /\ telegram.message.kind = "photo"
    /\ telegram.imageError
    /\ telegram.replies = <<[by |-> "handleMessage", text |-> <<"look">>]>>

====
